---- MODULE Spec2Model ----
(***************************************************************************)
(* Focus-Wristband: the streaming alert pipeline of test/test_pipeline.py  *)
(* (detect_alerts_and_log with its BaselineEMA), as a state machine.       *)
(*                                                                         *)
(* Numbers.  Python floats are modelled as exact rationals <<n, d>> with   *)
(* d > 0 in lowest terms; float("nan") is <<0, 0>>.  Arithmetic and        *)
(* comparison follow IEEE for NaN (NaN propagates, every comparison with   *)
(* NaN is false); rounding error of finite arithmetic is not modelled.     *)
(* None (the tracker before its first update) is the empty tuple.          *)
(***************************************************************************)
EXTENDS Integers, Naturals, Sequences, FiniteSets, TLC

VARIABLES
    alpha,           \* argument alpha of detect_alerts_and_log
    drop_pct,        \* argument drop_pct
    sustain_frames,  \* argument sustain_frames
    pc,              \* "loop" while the for loop runs, "done" after return
    i,               \* number of (rr, sdnn) pairs consumed = next frame index
    value,           \* baseline.value (None or a float)
    below_counter,   \* consecutive frames below threshold
    in_alert,        \* latch
    alerts,          \* list of (frame, sdnn, threshold, baseline)
    rows,            \* data rows written to the CSV, after the header row
    hist,            \* history: one record per consumed pair (see Snapshot)
    \* synth_rr_series and rolling_sdnn, the estimator side of _demo_run
    epc,             \* "off", "synth", "rolling" or "done"
    window_frames,   \* ROLLING_FRAMES, the window_frames argument
    raw,             \* history: the values random.gauss returned
    rr_series,       \* rr, the list synth_rr_series builds and returns
    sdnn_series,     \* the list rolling_sdnn builds
    wins,            \* history: win of every iteration of rolling_sdnn
    \* a caller that calls detect_alerts_and_log a second time
    run,             \* 1 in the first call, 2 in the second
    first,           \* what the first call consumed and left behind
    \* FocusPlotter.py: the module's globals and the streams that drive update
    fpc,             \* "off", or "live" once the module is loaded
    plot_baseline,   \* baseline.value, the module-level BaselineEMA (line 66)
    plot_counter,    \* the global below_counter (line 67)
    plot_latch,      \* the global in_alert (line 68)
    alert_x,         \* the module-level list of alert marks (line 56)
    frames,          \* history: per stream, the number of its update calls
    seen,            \* history: per stream, the state its last call left
    solo             \* history: per stream, the state of its own instance

\* the variables of detect_alerts_and_log
pvars == <<alpha, drop_pct, sustain_frames, pc, i, value, below_counter,
           in_alert, alerts, rows, hist>>
\* the variables of synth_rr_series and rolling_sdnn
evars == <<epc, window_frames, raw, rr_series, sdnn_series, wins>>

\* the variables of the caller that replays
rvars == <<run, first>>

\* the variables of FocusPlotter.py
fvars == <<fpc, plot_baseline, plot_counter, plot_latch, alert_x, frames,
           seen, solo>>

vars == <<pvars, evars, rvars, fvars>>

----------------------------------------------------------------------------
(* Bounds of the model *)

\* longest input series explored (len(rr_series) = len(sdnn_series))
MaxFrames == 5
\* most samples synth_rr_series generates (the sum of its phases' n)
MaxSamples == 5
\* most calls of FocusPlotter.update explored, all streams together
MaxCalls == 4
\* largest sustain_frames argument explored (0 is included)
MaxSustain == 2

----------------------------------------------------------------------------
(* Floats as rationals *)

NaN == <<0, 0>>
None == <<>>
One == <<1, 1>>

Abs(n) == IF n < 0 THEN -n ELSE n

RECURSIVE GCD(_, _)
GCD(a, b) == IF b = 0 THEN a ELSE GCD(b, a % b)

Norm(n, d) ==
    IF d = 0 THEN NaN
    ELSE LET g == GCD(Abs(n), Abs(d))
             s == IF d < 0 THEN -1 ELSE 1
         IN  <<(s * n) \div g, (s * d) \div g>>

Rat(n, d) == Norm(n, d)

RAdd(x, y) ==
    IF x[2] = 0 \/ y[2] = 0 THEN NaN
    ELSE Norm(x[1] * y[2] + y[1] * x[2], x[2] * y[2])

RSub(x, y) ==
    IF x[2] = 0 \/ y[2] = 0 THEN NaN
    ELSE Norm(x[1] * y[2] - y[1] * x[2], x[2] * y[2])

RMul(x, y) ==
    IF x[2] = 0 \/ y[2] = 0 THEN NaN
    ELSE Norm(x[1] * y[1], x[2] * y[2])

\* x < y on floats: false whenever an operand is NaN
RLess(x, y) == x[2] # 0 /\ y[2] # 0 /\ x[1] * y[2] < y[1] * x[2]

\* mutant: no statistic is held back
IsFinite_Always(x) == TRUE

\* math.isfinite
IsFinite(x) == x[2] # 0

RECURSIVE Pow10(_)
Pow10(n) == IF n = 0 THEN 1 ELSE 10 * Pow10(n - 1)

\* nearest integer to n/d (d > 0), ties to even: what the 'f' format does
RoundHalfEven(n, d) ==
    LET q == n \div d
        r == n - q * d
    IN  IF 2 * r < d THEN q
        ELSE IF 2 * r > d THEN q + 1
        ELSE IF q % 2 = 0 THEN q ELSE q + 1

\* f"{x:.<places>f}": the decimal text, as <<digits, places>> (1234, 2 is
\* "12.34"); the text "nan" is <<0, -1>>
Fmt(x, places) ==
    IF x[2] = 0 THEN <<0, -1>>
    ELSE <<RoundHalfEven(x[1] * Pow10(places), x[2]), places>>

----------------------------------------------------------------------------
(* Parameters and inputs *)

\* DT, the frame period in seconds
DT == Rat(1, 10)

\* values of the alpha argument explored
AlphaSet == {Rat(1, 4)}

\* values of the drop_pct argument explored: 0 and 6/5 are outside (0,1),
\* one on each side
DropSet == {Rat(0, 1), Rat(1, 5), Rat(6, 5)}

\* the (rr, sdnn) pairs the two input series are zipped from (line 149):
\* RR intervals in ms inside the clamp range of line 101, and SDNN values in
\* ms; NaN is compute_sdnn's result for a window of fewer than 2 samples
Inputs == {<<Rat(1000, 1), NaN>>, <<Rat(4001, 4), Rat(1, 1)>>,
           <<Rat(1999, 2), Rat(3, 1)>>, <<Rat(1050, 1), Rat(4, 1)>>}

----------------------------------------------------------------------------
(* BaselineEMA *)

\* mutant: the two weights are swapped
Update_Swapped(v, a, x) ==
    IF v = None THEN x
    ELSE RAdd(RMul(a, v), RMul(RSub(One, a), x))

\* BaselineEMA.update: the new self.value (which is also the return value)
Update(v, a, x) ==
    IF v = None THEN x
    ELSE RAdd(RMul(RSub(One, a), v), RMul(a, x))

\* mutant: b is read from the tracker before the update of this frame
BaselineReading_Stale(v, a, x) == IF v = None THEN x ELSE v

\* line 155, b = baseline.update(sdnn): the reading is what update returns,
\* the tracker's value after the update
BaselineReading(v, a, x) == Update(v, a, x)

----------------------------------------------------------------------------
(* The alert state machine, one loop iteration *)

\* mutant: the drop fraction itself is used as the factor
Threshold_NoComplement(p, b) == RMul(p, b)

Threshold(p, b) == RMul(RSub(One, p), b)

\* mutant: a statistic equal to the threshold counts as below it
IsBelow_OrEqual(sdnn, threshold) ==
    sdnn[2] # 0 /\ threshold[2] # 0 /\ ~RLess(threshold, sdnn)

IsBelow(sdnn, threshold) == RLess(sdnn, threshold)

\* mutant: every finite frame is counted, none resets the counter
NextCounter_NoReset(is_below, c) == c + 1

\* below_counter after lines 160-164
NextCounter(is_below, c) == IF is_below THEN c + 1 ELSE 0

\* mutant: the latch is never cleared
ClearLatch_Sticky(is_below, latch) == latch

\* in_alert after lines 160-164
ClearLatch(is_below, latch) == IF is_below THEN latch ELSE FALSE

\* mutant: the sustain test is strict, the event comes one frame late
ShouldAlert_Late(c, k, latch) == (c > k) /\ ~latch

\* mutant: the sustain test is off by one, the event comes one frame early
ShouldAlert_Early(c, k, latch) == (c >= k - 1) /\ ~latch

\* the condition of line 167
ShouldAlert(c, k, latch) == (c >= k) /\ ~latch

\* mutant: the AlertFlag column is written as 0 on every row
Row_FlagDropped(frame, rr, sdnn, b, threshold, alert_flag) ==
    <<frame, Fmt(RMul(Rat(frame, 1), DT), 2), Fmt(rr, 1), Fmt(sdnn, 2),
      Fmt(b, 2), Fmt(threshold, 2), 0>>

\* the CSV data row of lines 174-175
Row(frame, rr, sdnn, b, threshold, alert_flag) ==
    <<frame, Fmt(RMul(Rat(frame, 1), DT), 2), Fmt(rr, 1), Fmt(sdnn, 2),
      Fmt(b, 2), Fmt(threshold, 2), alert_flag>>

\* what the history keeps of one loop iteration: the pair consumed, the
\* locals b, threshold and is_below (NaN, NaN and FALSE when the frame is
\* skipped before they are computed), and the state the iteration leaves
Snapshot(frame, rr, sdnn, b, threshold, is_below, flag, v, c, latch, n, nrows) ==
    [frame |-> frame, rr |-> rr, sdnn |-> sdnn, b |-> b,
     threshold |-> threshold, is_below |-> is_below, alert_flag |-> flag,
     value |-> v, below_counter |-> c, in_alert |-> latch, nalerts |-> n,
     nrows |-> nrows]

----------------------------------------------------------------------------
(* The estimator side: synth_rr_series, rolling_sdnn, compute_sdnn *)

\* int(x) for x >= 0
IntTrunc(x) == x[1] \div x[2]

\* values of ROLLING_WINDOW_SEC explored (seconds)
WindowSecSet == {Rat(1, 10), Rat(2, 5)}

\* line 29: ROLLING_FRAMES = max(3, int(ROLLING_WINDOW_SEC / DT))
RollingFrames(window_sec) ==
    LET n == IntTrunc(RMul(window_sec, Rat(DT[2], DT[1])))
    IN  IF n > 3 THEN n ELSE 3

\* values random.gauss(ph.mean_ms, ph.sigma_ms) returns, in ms: below,
\* inside and above the clamp range
RawSet == {Rat(250, 1), Rat(900, 1), Rat(1100, 1), Rat(2500, 1)}

\* the built-ins min(a, b) and max(a, b) on floats
PyMin(a, b) == IF RLess(b, a) THEN b ELSE a
PyMax(a, b) == IF RLess(a, b) THEN b ELSE a

\* the bounds of line 101
ClampLo == Rat(300, 1)
ClampHi == Rat(2000, 1)

\* mutant: only the upper bound is applied
Clamp_UpperOnly(val) == PyMin(ClampHi, val)

\* line 101: val = max(300.0, min(2000.0, val))
Clamp(val) == PyMax(ClampLo, PyMin(ClampHi, val))

\* mutant: the window starts one sample too early
WindowStart_OffByOne(idx, n) == IF idx - n > 0 THEN idx - n ELSE 0

\* line 116: start = max(0, i - window_frames + 1)
WindowStart(idx, n) == IF idx - n + 1 > 0 THEN idx - n + 1 ELSE 0

\* the slice seq[start : stop] for 0 <= start
Slice(seq, start, stop) ==
    LET hi == IF stop < Len(seq) THEN stop ELSE Len(seq)
    IN  IF start >= hi THEN <<>> ELSE SubSeq(seq, start + 1, hi)

RECURSIVE SumSeq(_)
SumSeq(w) == IF w = <<>> THEN Rat(0, 1) ELSE RAdd(w[1], SumSeq(Tail(w)))

\* the squared deviations from m, summed
RECURSIVE SumSqDev(_, _)
SumSqDev(w, m) ==
    IF w = <<>> THEN Rat(0, 1)
    ELSE RAdd(RMul(RSub(w[1], m), RSub(w[1], m)), SumSqDev(Tail(w), m))

\* what compute_sdnn returns: nan, or the float sqrt(square), which is kept
\* by its square (the sample variance) because the root is not rational
SdnnNaN == [nan |-> TRUE, square |-> Rat(0, 1)]
SdnnRoot(v) == [nan |-> FALSE, square |-> v]

\* mutant: two samples are not enough either
ComputeSdnn_NeedsThree(w) ==
    IF Len(w) < 3 THEN SdnnNaN
    ELSE SdnnRoot(RMul(SumSqDev(w, RMul(SumSeq(w), Rat(1, Len(w)))),
                       Rat(1, Len(w) - 1)))

\* lines 66-69: nan for fewer than 2 samples, else np.std(arr, ddof=1)
ComputeSdnn(w) ==
    IF Len(w) < 2 THEN SdnnNaN
    ELSE SdnnRoot(RMul(SumSqDev(w, RMul(SumSeq(w), Rat(1, Len(w)))),
                       Rat(1, Len(w) - 1)))

\* the estimator is not running (the runs of detect_alerts_and_log alone)
EstimatorOff ==
    /\ epc = "off"
    /\ window_frames = 3
    /\ raw = <<>>
    /\ rr_series = <<>>
    /\ sdnn_series = <<>>
    /\ wins = <<>>

\* lines 93-94 and 29: rr = [], ROLLING_FRAMES computed from the parameters
EstimatorStart ==
    /\ epc = "synth"
    /\ \E w \in WindowSecSet : window_frames = RollingFrames(w)
    /\ raw = <<>>
    /\ rr_series = <<>>
    /\ sdnn_series = <<>>
    /\ wins = <<>>

\* lines 99-102: one sample is drawn, clamped and appended
SynthSample(val) ==
    /\ epc = "synth"
    /\ Len(rr_series) < MaxSamples
    /\ raw' = Append(raw, val)
    /\ rr_series' = Append(rr_series, Clamp(val))
    /\ UNCHANGED <<epc, window_frames, sdnn_series, wins>>

\* line 103 and line 197: rr is returned and handed to rolling_sdnn
SynthReturn ==
    /\ epc = "synth"
    /\ epc' = "rolling"
    /\ UNCHANGED <<window_frames, raw, rr_series, sdnn_series, wins>>

\* lines 115-118: one iteration of rolling_sdnn, i = len(sdnn_series)
RollingStep ==
    /\ epc = "rolling"
    /\ Len(sdnn_series) < Len(rr_series)
    /\ LET idx == Len(sdnn_series)
           start == WindowStart(idx, window_frames)
           win == Slice(rr_series, start, idx + 1)
       IN  /\ sdnn_series' = Append(sdnn_series, ComputeSdnn(win))
           /\ wins' = Append(wins, win)
    /\ UNCHANGED <<epc, window_frames, raw, rr_series>>

\* line 119: the loop is over, sdnn_series is returned
RollingReturn ==
    /\ epc = "rolling"
    /\ Len(sdnn_series) = Len(rr_series)
    /\ epc' = "done"
    /\ UNCHANGED <<window_frames, raw, rr_series, sdnn_series, wins>>

----------------------------------------------------------------------------
(* FocusPlotter.py: update(frame) and the module-level state it works on *)

\* the streams (devices, sessions) whose frames drive update
Streams == {"A", "B"}

\* values synth_sdnn(t) returns (line 89), in ms
SdnnDraws == {Rat(48, 1), Rat(32, 1)}

\* the state of one alert pipeline: lines 66-68 and the alert marks
Fresh == [value |-> None, below_counter |-> 0, in_alert |-> FALSE,
          alerts |-> <<>>]

\* lines 92 and 101-113 on the state st of one pipeline: the baseline update
\* (lines 28-34), threshold, counter, latch and alert are the expressions of
\* detect_alerts_and_log; frame stands for t = frame * DT in the alert mark
StepOf(st, frame, sdnn) ==
    LET b == Update(st.value, alpha, sdnn)
        threshold == Threshold(drop_pct, b)
        is_below == IsBelow(sdnn, threshold)
        c == NextCounter(is_below, st.below_counter)
        latch == ClearLatch(is_below, st.in_alert)
        fire == ShouldAlert(c, sustain_frames, latch)
    IN  [value |-> b,
         below_counter |-> c,
         in_alert |-> (IF fire THEN TRUE ELSE latch),
         alerts |-> (IF fire THEN Append(st.alerts, frame) ELSE st.alerts)]

\* FocusPlotter.py is not loaded
PlotterOff ==
    /\ fpc = "off"
    /\ plot_baseline = None
    /\ plot_counter = 0
    /\ plot_latch = FALSE
    /\ alert_x = <<>>
    /\ frames = [s \in Streams |-> 0]
    /\ seen = [s \in Streams |-> Fresh]
    /\ solo = [s \in Streams |-> Fresh]

\* lines 56 and 66-68: the module is loaded, its globals are created once
PlotterLoaded ==
    /\ fpc = "live"
    /\ plot_baseline = None
    /\ plot_counter = 0
    /\ plot_latch = FALSE
    /\ alert_x = <<>>
    /\ frames = [s \in Streams |-> 0]
    /\ seen = [s \in Streams |-> Fresh]
    /\ solo = [s \in Streams |-> Fresh]

\* lines 83-114: stream s calls update(frame) and synth_sdnn returns sdnn.
\* The call works on the globals; seen[s] keeps what it left in them and the
\* marks it added, solo[s] what the same calls of s leave in a state of its own
PlotUpdate(s, sdnn) ==
    /\ fpc = "live"
    /\ frames["A"] + frames["B"] < MaxCalls
    /\ LET g == [value |-> plot_baseline, below_counter |-> plot_counter,
                 in_alert |-> plot_latch, alerts |-> alert_x]
           after == StepOf(g, frames[s], sdnn)
           fired == Len(after.alerts) > Len(alert_x)
       IN  /\ plot_baseline' = after.value
           /\ plot_counter' = after.below_counter
           /\ plot_latch' = after.in_alert
           /\ alert_x' = after.alerts
           /\ seen' = [seen EXCEPT ![s] =
                  [value |-> after.value,
                   below_counter |-> after.below_counter,
                   in_alert |-> after.in_alert,
                   alerts |-> (IF fired THEN Append(seen[s].alerts, frames[s])
                               ELSE seen[s].alerts)]]
    /\ solo' = [solo EXCEPT ![s] = StepOf(solo[s], frames[s], sdnn)]
    /\ frames' = [frames EXCEPT ![s] = frames[s] + 1]
    /\ UNCHANGED fpc

\* nothing has been replayed: the one call of detect_alerts_and_log is the
\* first
NoRecord == [hist |-> <<>>, rows |-> <<>>, alerts |-> <<>>]
FirstCall == run = 1 /\ first = NoRecord

Init ==
    /\ alpha \in AlphaSet
    /\ drop_pct \in DropSet
    /\ sustain_frames \in 0..MaxSustain
    /\ pc = "loop"
    /\ i = 0
    /\ value = None
    /\ below_counter = 0
    /\ in_alert = FALSE
    /\ alerts = <<>>
    /\ rows = <<>>
    /\ hist = <<>>
    /\ EstimatorOff
    /\ FirstCall
    /\ PlotterOff

\* lines 151-152: the statistic is not finite, continue
SkipFrame(rr, sdnn) ==
    /\ pc = "loop"
    /\ i < MaxFrames
    /\ ~IsFinite(sdnn)
    /\ i' = i + 1
    /\ UNCHANGED <<alpha, drop_pct, sustain_frames, pc, value, below_counter,
                   in_alert, alerts, rows>>
    /\ hist' = Append(hist, Snapshot(i, rr, sdnn, NaN, NaN, FALSE, 0, value',
                                     below_counter', in_alert', Len(alerts'),
                                     Len(rows')))

\* lines 154-175: one finite frame
ProcessFrame(rr, sdnn) ==
    /\ pc = "loop"
    /\ i < MaxFrames
    /\ IsFinite(sdnn)
    /\ LET b == BaselineReading(value, alpha, sdnn)
           threshold == Threshold(drop_pct, b)
           is_below == IsBelow(sdnn, threshold)
           c == NextCounter(is_below, below_counter)
           latch == ClearLatch(is_below, in_alert)
           fire == ShouldAlert(c, sustain_frames, latch)
           alert_flag == IF fire THEN 1 ELSE 0
       IN  /\ value' = Update(value, alpha, sdnn)
           /\ below_counter' = c
           /\ in_alert' = (IF fire THEN TRUE ELSE latch)
           /\ alerts' = (IF fire THEN Append(alerts, <<i, sdnn, threshold, b>>)
                         ELSE alerts)
           /\ rows' = Append(rows, Row(i, rr, sdnn, b, threshold, alert_flag))
           /\ hist' = Append(hist,
                  Snapshot(i, rr, sdnn, b, threshold, is_below, alert_flag,
                           value', below_counter', in_alert', Len(alerts'),
                           Len(rows')))
    /\ i' = i + 1
    /\ UNCHANGED <<alpha, drop_pct, sustain_frames, pc>>

\* line 177: the series is exhausted, the file is closed, alerts is returned
Return ==
    /\ pc = "loop"
    /\ pc' = "done"
    /\ UNCHANGED <<alpha, drop_pct, sustain_frames, i, value, below_counter,
                   in_alert, alerts, rows, hist>>

Next ==
    \/ \E in \in Inputs : SkipFrame(in[1], in[2]) /\ UNCHANGED <<evars, rvars, fvars>>
    \/ \E in \in Inputs : ProcessFrame(in[1], in[2]) /\ UNCHANGED <<evars, rvars, fvars>>
    \/ Return /\ UNCHANGED <<evars, rvars, fvars>>

Spec == Init /\ [][Next]_vars

\* the configurations of section 7's contract: drop fraction inside (0,1)
ValidDrop == RLess(Rat(0, 1), drop_pct) /\ RLess(drop_pct, One)
\* ... and a sustain count of at least 1
ValidSustain == sustain_frames >= 1

\* the runs of a caller who passes a drop fraction inside (0,1)
InitValidDrop == Init /\ ValidDrop
SpecValidDrop == InitValidDrop /\ [][Next]_vars

\* the runs of a caller who passes a valid drop fraction and sustain count
InitValid == Init /\ ValidDrop /\ ValidSustain
SpecValid == InitValid /\ [][Next]_vars

\* the runs of a caller who passes a sustain count of at least 1
InitValidSustain == Init /\ ValidSustain
SpecValidSustain == InitValidSustain /\ [][Next]_vars

----------------------------------------------------------------------------
(* Replaying: detect_alerts_and_log is called again with the same arguments *)

\* mutant: the file is opened for appending
OpenTruncated_Appends(old) == old

\* line 145: open(csv_path, "w", ...) discards what the file held
OpenTruncated(old) == <<>>

\* mutant: the counter of the previous call is carried over
FreshCounter_Kept(old) == old

\* line 141: below_counter = 0, a local of the new call
FreshCounter(old) == 0

\* the pair the second call reads at index i: zip(rr_series, sdnn_series) of
\* the same two lists
ReplayedInput == <<first.hist[i + 1].rr, first.hist[i + 1].sdnn>>

\* lines 140-147 after a first call returned: the same arguments, new
\* locals, the same csv_path opened again
CallAgain ==
    /\ pc = "done"
    /\ run = 1
    /\ run' = 2
    /\ first' = [hist |-> hist, rows |-> rows, alerts |-> alerts]
    /\ pc' = "loop"
    /\ i' = 0
    /\ value' = None
    /\ below_counter' = FreshCounter(below_counter)
    /\ in_alert' = FALSE
    /\ alerts' = <<>>
    /\ rows' = OpenTruncated(rows)
    /\ hist' = <<>>
    /\ UNCHANGED <<alpha, drop_pct, sustain_frames>>

\* the loop of the first call reads any series; the loop of the second reads
\* the series of the first, pair by pair, and returns when it is exhausted
NextReplay ==
    \/ \E in \in Inputs :
          /\ run = 2 => (i < Len(first.hist) /\ in = ReplayedInput)
          /\ SkipFrame(in[1], in[2])
          /\ UNCHANGED <<evars, rvars, fvars>>
    \/ \E in \in Inputs :
          /\ run = 2 => (i < Len(first.hist) /\ in = ReplayedInput)
          /\ ProcessFrame(in[1], in[2])
          /\ UNCHANGED <<evars, rvars, fvars>>
    \/ (run = 2 => i = Len(first.hist)) /\ Return /\ UNCHANGED <<evars, rvars, fvars>>
    \/ CallAgain /\ UNCHANGED <<evars, fvars>>

SpecReplay == InitValid /\ [][NextReplay]_vars

\* detect_alerts_and_log has not been called yet (the runs of the estimator
\* side alone)
PipelineIdle ==
    /\ alpha \in AlphaSet
    /\ drop_pct = Rat(1, 5)
    /\ sustain_frames = 1
    /\ pc = "idle"
    /\ i = 0
    /\ value = None
    /\ below_counter = 0
    /\ in_alert = FALSE
    /\ alerts = <<>>
    /\ rows = <<>>
    /\ hist = <<>>

\* FocusPlotter.py's tunables (lines 11-18): DROP_PCT = 0.20, and a sustain
\* count of at least 1 in place of SUSTAIN_FRAMES = 30
PlotterConfig ==
    /\ alpha \in AlphaSet
    /\ drop_pct = Rat(1, 5)
    /\ sustain_frames \in 1..MaxSustain
    /\ pc = "idle"
    /\ i = 0
    /\ value = None
    /\ below_counter = 0
    /\ in_alert = FALSE
    /\ alerts = <<>>
    /\ rows = <<>>
    /\ hist = <<>>

InitPlotter == PlotterConfig /\ EstimatorOff /\ FirstCall /\ PlotterLoaded

NextPlotter ==
    \E s \in Streams : \E sdnn \in SdnnDraws :
        PlotUpdate(s, sdnn) /\ UNCHANGED <<pvars, evars, rvars>>

\* two streams driving FocusPlotter.update in any interleaving
SpecPlotter == InitPlotter /\ [][NextPlotter]_vars

InitEstimator == PipelineIdle /\ EstimatorStart /\ FirstCall /\ PlotterOff

NextEstimator ==
    \/ \E val \in RawSet : SynthSample(val) /\ UNCHANGED <<pvars, rvars, fvars>>
    \/ SynthReturn /\ UNCHANGED <<pvars, rvars, fvars>>
    \/ RollingStep /\ UNCHANGED <<pvars, rvars, fvars>>
    \/ RollingReturn /\ UNCHANGED <<pvars, rvars, fvars>>

\* synth_rr_series followed by rolling_sdnn, as _demo_run calls them
SpecEstimator == InitEstimator /\ [][NextEstimator]_vars

----------------------------------------------------------------------------
(* Reading the history *)

\* the state before iteration j (hist[j] is the iteration of frame j - 1)
PreCounter(j) == IF j = 1 THEN 0 ELSE hist[j - 1].below_counter
PreLatch(j) == IF j = 1 THEN FALSE ELSE hist[j - 1].in_alert
PreAlerts(j) == IF j = 1 THEN 0 ELSE hist[j - 1].nalerts
PreValue(j) == IF j = 1 THEN None ELSE hist[j - 1].value
PreRows(j) == IF j = 1 THEN 0 ELSE hist[j - 1].nrows

\* iteration j consumed a finite statistic
Fin(j) == hist[j].sdnn[2] # 0
\* a finite observation with statistic < threshold
Qual(j) == Fin(j) /\ RLess(hist[j].sdnn, hist[j].threshold)
\* a finite observation with statistic >= threshold
NonQual(j) == Fin(j) /\ ~RLess(hist[j].sdnn, hist[j].threshold)
\* the finite observations among iterations s..e
FinIn(s, e) == {f \in s..e : Fin(f)}
\* the events of the alert list emitted on the frames of iterations s..e
AlertsIn(s, e) == {n \in 1..Len(alerts) : alerts[n][1] \in (s - 1)..(e - 1)}

\* iterations s..e hold a run of exactly len finite observations that starts
\* at s with counter 0 and latch false and ends at e
RunFromRest(s, e, len) ==
    /\ s <= e /\ Fin(s) /\ Fin(e)
    /\ PreCounter(s) = 0 /\ ~PreLatch(s)
    /\ Cardinality(FinIn(s, e)) = len

----------------------------------------------------------------------------
(* Claims *)

\* C1: for sustain count k >= 1, from counter 0 and latch false, a run of k
\* consecutive finite observations below threshold produces exactly one
\* Alert Event; it is emitted on the k-th observation of the run and carries
\* that frame's index; none is emitted on an earlier frame of the run, and
\* none on the frame that follows the k-th.
C1_AlertOnKthFrame ==
    sustain_frames >= 1 =>
    \A s, e \in 1..Len(hist) :
        (RunFromRest(s, e, sustain_frames) /\ \A f \in FinIn(s, e) : Qual(f))
        => /\ Cardinality(AlertsIn(s, e)) = 1
           /\ \A n \in AlertsIn(s, e) : alerts[n][1] = e - 1
           /\ hist[e].alert_flag = 1 /\ hist[e].frame = e - 1
           /\ hist[e].nalerts = PreAlerts(s) + 1
           /\ \A f \in s..(e - 1) : hist[f].alert_flag = 0
           /\ (e + 1 <= Len(hist) =>
                  hist[e + 1].alert_flag = 0 /\ AlertsIn(e + 1, e + 1) = {})

\* a run of 2 qualifying observations with an undefined one inside it has
\* fired with sustain count 2
C1_Witness ==
    /\ sustain_frames = 2
    /\ \E s, e \in 1..Len(hist) :
          /\ RunFromRest(s, e, 2) /\ \A f \in FinIn(s, e) : Qual(f)
          /\ e = s + 2
          /\ hist[e].alert_flag = 1

\* C3: for sustain count k >= 1, from counter 0 and latch false, a run of
\* k-1 consecutive observations below threshold followed by one finite
\* observation not below threshold produces no Alert Event.
C3_ShortRunNoAlert ==
    sustain_frames >= 1 =>
    \A s, e \in 1..Len(hist) :
        (/\ RunFromRest(s, e, sustain_frames)
         /\ NonQual(e)
         /\ \A f \in FinIn(s, e) \ {e} : Qual(f))
        => /\ AlertsIn(s, e) = {}
           /\ hist[e].nalerts = PreAlerts(s)
           /\ \A f \in s..e : hist[f].alert_flag = 0

\* one qualifying observation, then a non-qualifying one, with sustain
\* count 2
C3_Witness ==
    /\ sustain_frames = 2
    /\ \E s, e \in 1..Len(hist) :
          /\ RunFromRest(s, e, 2) /\ Qual(s) /\ NonQual(e)

\* the finite observations before iteration s
PrevFin(s) == {f \in 1..(s - 1) : Fin(f)}
\* iteration s opens a run of qualifying observations: it qualifies and the
\* finite observation before it, if any, does not
RunStart(s) ==
    /\ Qual(s)
    /\ \A f \in PrevFin(s) : (\A g \in PrevFin(s) : g <= f) => NonQual(f)
\* the event the iteration of hist[j] would append
EventOf(j) == <<hist[j].frame, hist[j].sdnn, hist[j].threshold, hist[j].b>>
\* (1 - p) * baseline and the smoothing step, written out with the
\* arguments of the run
DropThreshold(b) == RMul(RSub(One, drop_pct), b)
Smoothed(old, x) == RAdd(RMul(RSub(One, alpha), old), RMul(alpha, x))

\* the alert list is append-only: its n-th event is the one appended by the
\* iteration that raised the count to n, with that iteration's values
AlertsAppendOnly ==
    /\ \A j \in 1..Len(hist) :
          /\ hist[j].nalerts \in {PreAlerts(j), PreAlerts(j) + 1}
          /\ hist[j].nalerts = PreAlerts(j) + 1 =>
                hist[j].nalerts <= Len(alerts)
                /\ alerts[hist[j].nalerts] = EventOf(j)
    /\ Len(alerts) = (IF hist = <<>> THEN 0 ELSE hist[Len(hist)].nalerts)

\* C2: within one uninterrupted run of observations below threshold whose
\* length is at least the sustain count, exactly one Alert Event is emitted;
\* while the latch stays set (frames that do not clear it) nothing is
\* appended; events in the alert list are never changed or removed.
C2_OneEventPerRun ==
    /\ \A s, e \in 1..Len(hist) :
          (/\ s <= e /\ RunStart(s) /\ Fin(e)
           /\ \A f \in FinIn(s, e) : Qual(f)
           /\ Cardinality(FinIn(s, e)) >= sustain_frames)
          => Cardinality(AlertsIn(s, e)) = 1
    /\ \A j \in 1..Len(hist) :
          (PreLatch(j) /\ ~NonQual(j)) => hist[j].nalerts = PreAlerts(j)
    /\ AlertsAppendOnly

\* C4: a finite observation with statistic >= threshold leaves the counter
\* at 0 and the latch clear, whatever the state before it; a run of k
\* qualifying observations after it emits a new Alert Event.
C4_ResetAndRearm ==
    /\ \A j \in 1..Len(hist) :
          NonQual(j) => hist[j].below_counter = 0 /\ ~hist[j].in_alert
    /\ \A j, e \in 1..Len(hist) :
          (/\ NonQual(j) /\ j < e /\ Fin(e)
           /\ \A f \in FinIn(j + 1, e) : Qual(f)
           /\ Cardinality(FinIn(j + 1, e)) = sustain_frames)
          => hist[e].alert_flag = 1 /\ hist[e].nalerts = hist[j].nalerts + 1

\* C5: a finite observation whose statistic equals (1 - p) * baseline is not
\* below threshold: the counter is 0 and the latch clear after it, and it
\* emits no Alert Event.
C5_TieNotBelow ==
    \A j \in 1..Len(hist) :
        (Fin(j) /\ hist[j].sdnn = DropThreshold(hist[j].b))
        => /\ ~hist[j].is_below
           /\ hist[j].below_counter = 0
           /\ ~hist[j].in_alert
           /\ hist[j].alert_flag = 0
           /\ hist[j].nalerts = PreAlerts(j)

\* C2, C4 and C5 for the sustain counts the configuration contract allows
\* (sustain_frames >= 1): the three hold there
C2_OneEventPerRun_ValidSustain == sustain_frames >= 1 => C2_OneEventPerRun
C4_ResetAndRearm_ValidSustain == sustain_frames >= 1 => C4_ResetAndRearm
C5_TieNotBelow_ValidSustain == sustain_frames >= 1 => C5_TieNotBelow

\* C6: an observation whose statistic is not finite leaves the baseline, the
\* counter, the latch and the alert list as they were, and writes no event;
\* a qualifying run interrupted only by such observations keeps its count.
C6_UndefinedIsNoOp ==
    /\ \A j \in 1..Len(hist) :
          ~Fin(j) => /\ hist[j].value = PreValue(j)
                     /\ hist[j].below_counter = PreCounter(j)
                     /\ hist[j].in_alert = PreLatch(j)
                     /\ hist[j].nalerts = PreAlerts(j)
                     /\ hist[j].alert_flag = 0
    /\ \A s, e \in 1..Len(hist) :
          (s < e /\ Qual(s) /\ Qual(e) /\ FinIn(s + 1, e - 1) = {})
          => hist[e].below_counter = hist[s].below_counter + 1
    /\ AlertsAppendOnly
    /\ hist # <<>> =>
          /\ value = hist[Len(hist)].value
          /\ below_counter = hist[Len(hist)].below_counter
          /\ in_alert = hist[Len(hist)].in_alert

\* an undefined observation arrived inside a qualifying run, with baseline
\* set, counter 1 and then 2 after the run resumed
C6_Witness ==
    \E s, e \in 1..Len(hist) :
        /\ s + 1 < e /\ Qual(s) /\ Qual(e) /\ FinIn(s + 1, e - 1) = {}
        /\ hist[s].below_counter = 1 /\ hist[e].below_counter = 2
        /\ hist[s + 1].value # None

\* C7: one telemetry record is written per input sample, undefined
\* statistics included: the number of data rows equals the number of
\* samples consumed.
C7_RowPerSample == Len(rows) = i

\* drop fraction outside (0,1) or sustain count 0
BadConfig == ~ValidDrop \/ ~ValidSustain

\* C8: a configuration with sustain count 0 or drop fraction outside (0,1)
\* is rejected before any sample is processed: no observation reaches the
\* tracker or the log and no Alert Event is emitted.
C8_BadConfigRejected ==
    BadConfig => (value = None /\ rows = <<>> /\ alerts = <<>>)

\* C9: on every finite observation the baseline is updated with the current
\* statistic, and the threshold of the below-threshold test, of the
\* telemetry row and of the event is (1 - p) times the baseline returned by
\* that update (the row holds both formatted to two decimals).
C9_SameBaseline ==
    \A j \in 1..Len(hist) :
        Fin(j) =>
        LET b == hist[j].b
            thr == DropThreshold(b)
        IN  /\ b = hist[j].value
            /\ b = (IF PreValue(j) = None THEN hist[j].sdnn
                    ELSE Smoothed(PreValue(j), hist[j].sdnn))
            /\ hist[j].threshold = thr
            /\ hist[j].is_below = RLess(hist[j].sdnn, thr)
            /\ hist[j].nrows = PreRows(j) + 1
            /\ hist[j].nrows <= Len(rows)
            /\ rows[hist[j].nrows][1] = hist[j].frame
            /\ rows[hist[j].nrows][5] = Fmt(b, 2)
            /\ rows[hist[j].nrows][6] = Fmt(thr, 2)
            /\ hist[j].alert_flag = 1 => alerts[hist[j].nalerts] = EventOf(j)

\* an observation whose verdict differs between its own baseline reading and
\* the reading of the observation before it
C9_Witness ==
    \E j \in 1..Len(hist) :
        /\ Fin(j) /\ PreValue(j) # None /\ hist[j].value # PreValue(j)
        /\ RLess(hist[j].sdnn, DropThreshold(PreValue(j)))
        /\ ~RLess(hist[j].sdnn, DropThreshold(hist[j].b))
        /\ ~hist[j].is_below

\* C10: the first update of the tracker returns its input; every later one
\* returns (1 - alpha) * old + alpha * x, so the second returns
\* (1 - alpha) * x1 + alpha * x2; every finite statistic updates it whatever
\* the counter and the latch; once initialized it is never None again.
C10_BaselineEMA ==
    /\ \A j \in 1..Len(hist) :
          /\ Fin(j) => /\ hist[j].b = hist[j].value
                       /\ hist[j].b = (IF PreValue(j) = None THEN hist[j].sdnn
                                       ELSE Smoothed(PreValue(j), hist[j].sdnn))
          /\ PreValue(j) # None => hist[j].value # None
          /\ (PreValue(j) = None) = (PrevFin(j) = {})
    /\ \A f, g \in 1..Len(hist) :
          (f < g /\ Fin(f) /\ Fin(g) /\ FinIn(1, g) = {f, g})
          => hist[g].b = RAdd(RMul(RSub(One, alpha), hist[f].sdnn),
                              RMul(alpha, hist[g].sdnn))
    /\ value = (IF hist = <<>> THEN None ELSE hist[Len(hist)].value)

\* the tracker moved on an observation taken while the latch was set
C10_Witness ==
    \E j \in 1..Len(hist) :
        /\ Fin(j) /\ PreLatch(j) /\ PreCounter(j) > 0
        /\ PreValue(j) # None /\ hist[j].value # PreValue(j)
        /\ hist[j].b # hist[j].sdnn

\* the last finite observation not below threshold among iterations 1..j
\* (0 when there is none)
LastNonQual(j) ==
    LET S == {f \in 1..j : NonQual(f)}
    IN  IF S = {} THEN 0 ELSE CHOOSE f \in S : \A g \in S : g <= f

\* C16: for sustain count k >= 1, after every finite observation the latch
\* is set iff the counter is >= k; the counter is >= 0 and is the number of
\* finite observations since the most recent one not below threshold (or
\* since the start).
C16_LatchIffSustained ==
    sustain_frames >= 1 =>
    /\ \A j \in 1..Len(hist) :
          Fin(j) =>
          /\ hist[j].in_alert = (hist[j].below_counter >= sustain_frames)
          /\ hist[j].below_counter >= 0
          /\ hist[j].below_counter =
                Cardinality(FinIn(LastNonQual(j) + 1, j))
    /\ hist # <<>> =>
          /\ below_counter = hist[Len(hist)].below_counter
          /\ in_alert = hist[Len(hist)].in_alert

\* the latch was set, then cleared by an observation not below threshold,
\* with sustain count 1
C16_Witness ==
    /\ sustain_frames = 1
    /\ \E j \in 2..Len(hist) :
          /\ NonQual(j) /\ PreLatch(j) /\ PreCounter(j) = 2
          /\ ~hist[j].in_alert /\ hist[j].below_counter = 0

\* C17: for sustain count k >= 1, every event (frame, statistic, threshold,
\* baseline) of the alert list has statistic < threshold and threshold =
\* (1 - p) * baseline, with the values of its own frame; no event is emitted
\* on a frame whose statistic is undefined or not below threshold.
C17_EventsAreBelowThreshold ==
    sustain_frames >= 1 =>
    /\ \A n \in 1..Len(alerts) :
          LET j == alerts[n][1] + 1
          IN  /\ j \in 1..Len(hist) /\ Fin(j)
              /\ alerts[n][2] = hist[j].sdnn
              /\ alerts[n][4] = hist[j].value
              /\ alerts[n][3] = DropThreshold(alerts[n][4])
              /\ RLess(alerts[n][2], alerts[n][3])
    /\ \A j \in 1..Len(hist) :
          (~Fin(j) \/ ~RLess(hist[j].sdnn, DropThreshold(hist[j].value)))
          => hist[j].alert_flag = 0 /\ hist[j].nalerts = PreAlerts(j)

\* an event was emitted, and after it a tie frame (statistic = threshold)
\* emitted none, with sustain count 1
C17_Witness ==
    /\ sustain_frames = 1 /\ Len(alerts) >= 1
    /\ \E j \in 1..Len(hist) :
          /\ Fin(j) /\ hist[j].sdnn = DropThreshold(hist[j].value)
          /\ hist[j].nalerts = PreAlerts(j)

\* C18: with drop fraction in (0,1) and sustain count k >= 1, the first
\* finite statistic of a run is not below threshold (threshold <=
\* statistic) and emits nothing, and every event comes at least k frames
\* after it: with only frame 0 undefined, no event has a frame index
\* below k + 1.
C18_NoEarlyEvent ==
    (ValidDrop /\ ValidSustain) =>
    /\ \A j \in 1..Len(hist) :
          (Fin(j) /\ PrevFin(j) = {})
          => /\ ~RLess(hist[j].sdnn, hist[j].threshold)
             /\ ~RLess(hist[j].sdnn, DropThreshold(hist[j].sdnn))
             /\ hist[j].value = hist[j].sdnn
             /\ hist[j].alert_flag = 0
             /\ \A n \in 1..Len(alerts) :
                   /\ alerts[n][1] >= (j - 1) + sustain_frames
                   /\ Cardinality(FinIn(j + 1, alerts[n][1] + 1))
                         >= sustain_frames
    /\ (Len(hist) >= 1 /\ ~Fin(1) /\ \A f \in 2..Len(hist) : Fin(f))
       => \A n \in 1..Len(alerts) : alerts[n][1] >= sustain_frames + 1

\* only frame 0 undefined, sustain count 2, and an event on frame 3
C18_Witness ==
    /\ ValidDrop /\ sustain_frames = 2
    /\ Len(hist) >= 4 /\ ~Fin(1) /\ \A f \in 2..Len(hist) : Fin(f)
    /\ Len(alerts) = 1 /\ alerts[1][1] = 3

\* the row written by iteration j (a finite frame)
RowOf(j) == rows[hist[j].nrows]
\* the rows whose AlertFlag is 1
FlaggedRows == {r \in 1..Len(rows) : rows[r][7] = 1}

\* C19: the AlertFlag of a row is 1 exactly when its frame appended an Alert
\* Event and 0 on every other row, later rows of the same episode included;
\* the rows with AlertFlag 1 are as many as the events of the alert list,
\* they carry the events' frame indices, and these are strictly increasing.
C19_AlertFlagMarksEvents ==
    /\ \A j \in 1..Len(hist) :
          Fin(j) =>
          /\ hist[j].nrows = PreRows(j) + 1 /\ hist[j].nrows <= Len(rows)
          /\ RowOf(j)[1] = hist[j].frame
          /\ RowOf(j)[7] = (IF hist[j].nalerts = PreAlerts(j) + 1 THEN 1 ELSE 0)
          /\ (PreLatch(j) /\ Qual(j)) => RowOf(j)[7] = 0
    /\ \A r \in 1..Len(rows) : rows[r][7] \in {0, 1}
    /\ Cardinality(FlaggedRows) = Len(alerts)
    /\ {rows[r][1] : r \in FlaggedRows} = {alerts[n][1] : n \in 1..Len(alerts)}
    /\ \A n, m \in 1..Len(alerts) : n < m => alerts[n][1] < alerts[m][1]
    /\ \A r, q \in 1..Len(rows) : r < q => rows[r][1] < rows[q][1]
    /\ AlertsAppendOnly

\* rows flagged 0, 1, 0: the last one written while the latch was still set
C19_Witness ==
    /\ Len(alerts) = 1
    /\ \E j \in 1..Len(hist) :
          /\ Fin(j) /\ PreLatch(j) /\ Qual(j) /\ hist[j].in_alert
          /\ RowOf(j)[7] = 0
          /\ hist[j].nrows >= 3 /\ rows[hist[j].nrows - 1][7] = 1

\* the statistics fed to the tracker by iterations 1..j
Fed(j) == {hist[f].sdnn : f \in FinIn(1, j)}

\* C20: after any sequence of finite updates the baseline lies between the
\* smallest and the largest statistic fed to the tracker so far, and the
\* threshold does not exceed (1 - p) times the largest statistic fed so far.
C20_BaselineWithinRange ==
    \A j \in 1..Len(hist) :
        Fin(j) =>
        /\ \E lo \in Fed(j) : ~RLess(hist[j].value, lo)
        /\ \E hi \in Fed(j) : ~RLess(hi, hist[j].value)
        /\ \A hi \in Fed(j) :
              (\A x \in Fed(j) : ~RLess(hi, x))
              => ~RLess(DropThreshold(hi), hist[j].threshold)

\* C20 for the drop fractions the configuration contract allows: it holds
\* there
C20_BaselineWithinRange_ValidDrop == ValidDrop => C20_BaselineWithinRange


----------------------------------------------------------------------------
(* The estimator's window *)

MinOf(a, b) == IF a < b THEN a ELSE b

\* the squares, summed
RECURSIVE SumSq(_)
SumSq(w) == IF w = <<>> THEN Rat(0, 1) ELSE RAdd(RMul(w[1], w[1]), SumSq(Tail(w)))

\* the unbiased sample variance, by the sums of the samples and of their
\* squares: (n * sum(x^2) - sum(x)^2) / (n * (n - 1))
UnbiasedVar(w) ==
    RMul(RSub(RMul(Rat(Len(w), 1), SumSq(w)), RMul(SumSeq(w), SumSeq(w))),
         Rat(1, Len(w) * (Len(w) - 1)))

\* the most recent n samples up to the k-th arrival, in arrival order
LastArrivals(k, n) == [t \in 1..n |-> rr_series[k - n + t]]

\* C11: at every sample index the window the statistic is computed from is
\* exactly the most recent min(i+1, N) samples in arrival order; it never
\* holds more than N samples; it grows by the new sample until it is full and
\* from then on every new sample evicts exactly the oldest one; the statistic
\* is the unbiased sample deviation of exactly those samples.
C11_WindowIsLastN ==
    \A k \in 1..Len(wins) :
        /\ Len(wins[k]) = MinOf(k, window_frames)
        /\ Len(wins[k]) <= window_frames
        /\ wins[k] = LastArrivals(k, MinOf(k, window_frames))
        /\ k >= 2 =>
              wins[k] = IF Len(wins[k - 1]) = window_frames
                        THEN Append(Tail(wins[k - 1]), rr_series[k])
                        ELSE Append(wins[k - 1], rr_series[k])
        /\ k >= 2 =>
              /\ ~sdnn_series[k].nan
              /\ sdnn_series[k].square =
                     UnbiasedVar(LastArrivals(k, MinOf(k, window_frames)))

\* a full window has evicted two samples, the first of them different from
\* the sample that replaced it
C11_Witness ==
    /\ window_frames = 3
    /\ Len(wins) = 5
    /\ rr_series[1] # rr_series[4]
    /\ wins[5] = <<rr_series[3], rr_series[4], rr_series[5]>>
    /\ RLess(Rat(0, 1), sdnn_series[5].square)

\* C12: the estimator returns the undefined value exactly when its window
\* holds fewer than two samples, as an ordinary element of the series, and a
\* defined value for every window of two or more finite samples; in a stream
\* of finite samples only the first sample's statistic is undefined.
C12_UndefinedOnlyFirst ==
    /\ Len(sdnn_series) = Len(wins)
    /\ \A k \in 1..Len(sdnn_series) :
          /\ sdnn_series[k].nan <=> Len(wins[k]) < 2
          /\ sdnn_series[k].nan <=> k = 1
          /\ ~sdnn_series[k].nan => ~RLess(sdnn_series[k].square, Rat(0, 1))

\* the first statistic is undefined, the second is defined (and zero: two
\* equal samples), the series went on after the undefined element
C12_Witness ==
    /\ epc = "done"
    /\ Len(sdnn_series) >= 3
    /\ sdnn_series[1].nan
    /\ Len(wins[2]) = 2
    /\ sdnn_series[2] = SdnnRoot(Rat(0, 1))
    /\ ~sdnn_series[3].nan

InRange(x) == ~RLess(x, ClampLo) /\ ~RLess(ClampHi, x)

----------------------------------------------------------------------------
(* Determinism *)

Prefix(seq, n) == SubSeq(seq, 1, n)

----------------------------------------------------------------------------
(* Isolation of pipeline instances *)

\* C15: when two instances process their own sample streams in any
\* interleaving, each one's baseline, counter, latch and emitted alerts are
\* the same as when it runs alone.  In FocusPlotter.py the baseline, the
\* counter and the latch are module globals, so the streams that drive update
\* share them: what a stream's call leaves differs from what it leaves alone.
C15_InstancesIsolated ==
    \A s \in Streams : frames[s] > 0 => seen[s] = solo[s]

====
